---- MODULE Spec2Model ----
(***************************************************************************)
(* Model of package confirm (src/confirm/confirm.go): confirmation of a   *)
(* user registration by a random token sent by e-mail.                    *)
(*                                                                         *)
(* A string is a sequence of one-character strings, so that               *)
(* strings.ToUpper and the byte-wise token generator are computed, not    *)
(* assumed.  A value of rand.Int63() is the sequence of its ten 6-bit     *)
(* groups, lowest first (the three top bits are never read: the loop      *)
(* re-draws after letterIdxMax = 10 groups).                              *)
(***************************************************************************)
EXTENDS Integers, Sequences, FiniteSets, TLC

\* ------------------------------------------------------------- bounds
MaxAccounts == 2
MaxRequests == 2
MaxDraws == 2

\* ---------------------------------------------------------- constants
TokenLength == 6
letterBytes ==
  << "a","b","c","d","e","f","g","h","i","j","k","l","m",
     "n","o","p","q","r","s","t","u","v","w","x","y","z",
     "A","B","C","D","E","F","G","H","I","J","K","L","M",
     "N","O","P","Q","R","S","T","U","V","W","X","Y","Z" >>
letterIdxBits == 6
letterIdxMask == 2^letterIdxBits - 1
letterIdxMax == 63 \div letterIdxBits

FormValueConfirm == "cnf"
RegisterOKPath == "RegisterOKPath"
RootPath == "/"

Accounts == 1..MaxAccounts
Requests == 1..MaxRequests

NoEmail == "no-email"
EmptyString == << >>

\* ------------------------------------------------------------ strings
lowerLetters == SubSeq(letterBytes, 1, 26)
upperLetters == SubSeq(letterBytes, 27, 52)

UpperChar(c) ==
  IF \E k \in 1..26 : lowerLetters[k] = c
  THEN upperLetters[CHOOSE k \in 1..26 : lowerLetters[k] = c]
  ELSE c

LowerChar(c) ==
  IF \E k \in 1..26 : upperLetters[k] = c
  THEN lowerLetters[CHOOSE k \in 1..26 : upperLetters[k] = c]
  ELSE c

\* A mutant of ToUpper: the string is left in the case it came in.
ToUpper_Keep(s) == s

\* strings.ToUpper, as used on the generated token and on the form value.
ToUpper(s) == [i \in 1..Len(s) |-> UpperChar(s[i])]

\* The ways a client may re-case a token it received.
ToLower(s) == [i \in 1..Len(s) |-> LowerChar(s[i])]
MixedCase(s) ==
  [i \in 1..Len(s) |-> IF i % 2 = 1 THEN LowerChar(s[i]) ELSE UpperChar(s[i])]
CaseVariants(t) == {t, ToUpper(t), ToLower(t), MixedCase(t)}

\* -------------------------------------------------------- random source
\* Values rand.Int63() may return, as ten 6-bit groups, lowest first.
\* DrawDense holds ten accepted groups; DrawSparse holds four accepted groups
\* among rejected ones (52..63), so that a token needs a second draw.
DrawDense == << 28, 2, 0, 0, 0, 0, 0, 0, 0, 0 >>
DrawSparse == << 63, 52, 28, 2, 28, 2, 61, 63, 62, 63 >>
RandDraws == {DrawDense, DrawSparse}
RandStreams == [1..MaxDraws -> RandDraws]

Exhausted == << "exhausted" >>

\* idx < len(letterBytes): the 6-bit value read selects a letter.
Accepts_AllButLast(idx) == idx < Len(letterBytes) - 1
Accepts(idx) == idx < Len(letterBytes)

\* The loop of RandStringBytesMaskImpr: i counts down from n-1, cache holds
\* the groups not yet shifted out, remain the number of groups left in it,
\* rest the values rand.Int63() returns next.
RECURSIVE RandLoop(_, _, _, _, _)
RandLoop(i, cache, remain, b, rest) ==
  IF i < 0 THEN b
  ELSE IF remain = 0 /\ rest = << >> THEN Exhausted
  ELSE
    LET cache1 == IF remain = 0 THEN Head(rest) ELSE cache
        remain1 == IF remain = 0 THEN letterIdxMax ELSE remain
        rest1 == IF remain = 0 THEN Tail(rest) ELSE rest
        idx == Head(cache1) % (letterIdxMask + 1)
    IN IF Accepts(idx)
       THEN RandLoop(i - 1, Tail(cache1), remain1 - 1,
                     [b EXCEPT ![i + 1] = letterBytes[idx + 1]], rest1)
       ELSE RandLoop(i, Tail(cache1), remain1 - 1, b, rest1)

\* RandStringBytesMaskImpr(n) when rand.Int63() returns the values of stream.
RandStringBytesMaskImpr(n, stream) ==
  IF stream = << >> THEN Exhausted
  ELSE RandLoop(n - 1, Head(stream), letterIdxMax,
                [k \in 1..n |-> ""], Tail(stream))

\* ---------------------------------------------------------------- state
VARIABLES
  cfg,        \* AllowInsecureLoginAfterConfirm, and whether ctx.MailMaker is set
  store,      \* the Storer: primary ID -> the account's attributes
  reg,        \* per account, the context of its EventRegister callback
  conf,       \* per request slot, a confirmHandler call that awaits SaveUser
  dispatches, \* per account, the calls of goConfirmEmail made for it
  session,    \* the keys written to the session under SessionKey
  redeemed,   \* history: <<form value, account>> of each completed success
  last,       \* the step taken last: operation, inputs and response
  calls,      \* the collaborator calls the last step made, in order
  touched,    \* the accounts whose stored attributes the last step changed
  issued,     \* per account, the outstanding token its last issue overwrote
  gen         \* a call of RandStringBytesMaskImpr, one loop iteration a step

vars == << cfg, store, reg, conf, dispatches, session, redeemed, last, calls,
           touched, issued, gen >>

\* ctx.User = nil, and the place of an account the Storer does not hold.
NoUser == [key |-> 0, email |-> NoEmail, confirm_token |-> EmptyString,
           confirmed |-> FALSE]

\* The account the host creates on registration: confirmed defaults to false.
NewUser(a, e) == [key |-> a, email |-> e, confirm_token |-> EmptyString,
                  confirmed |-> FALSE]

EmailOf(a) == "user" \o ToString(a) \o "@example.com"

NoEvent == [op |-> "init", acct |-> 0, empty |-> FALSE, result |-> "",
            location |-> "", lookup |-> "none", save |-> "none", prior |-> {},
            interrupt |-> "", field |-> "none", mail |-> "none"]

IdleReg == [pc |-> "none", user |-> NoUser]

IdleConf == [pc |-> "idle", token |-> EmptyString, user |-> NoUser, prior |-> {}]

\* ------------------------------------------------------- collaborators
\* ctx.SaveUser(): Storer.Put of the whole attribute map under its primary ID.
SaveUser(st, user) == [st EXCEPT ![user.key] = user]

\* ConfirmStorer.ConfirmUser: the accounts whose confirm token is the key.
\* None of them means ErrUserNotFound.
ConfirmUser(st, confirmToken) ==
  {a \in Accounts : st[a] # NoUser /\ st[a].confirm_token = confirmToken}

\* ------------------------------------------------------ code fragments
\* A mutant of SetConfirmToken: the token is generated and not stored.
SetConfirmToken_Dropped(user, token) == user

\* A mutant of SetConfirmToken: the account is confirmed on registration.
SetConfirmToken_Confirmed(user, token) ==
  [user EXCEPT !.confirm_token = ToUpper(token), !.confirmed = TRUE]

\* A mutant of SetConfirmToken: the token stored is not the one generated.
SetConfirmToken_Fixed(user, token) ==
  [user EXCEPT !.confirm_token = << "Z", "Z", "Z", "Z", "Z", "Z" >>]

\* afterRegister: ctx.User[StoreConfirmToken] = strings.ToUpper(token)
SetConfirmToken(user, token) == [user EXCEPT !.confirm_token = ToUpper(token)]

\* A mutant of SaveFailed: the error of SaveUser is dropped and the client
\* redirected as after a success.
SaveFailed_Ignored(ev) ==
  [ev EXCEPT !.save = "fail", !.result = "nil", !.location = RegisterOKPath]

\* confirmHandler: if err := ctx.SaveUser(); err != nil { return err }
SaveFailed(ev) == [ev EXCEPT !.save = "fail", !.result = "storerErr"]

\* A mutant of SessionPut: the session is written whatever the policy.
SessionPut_Always(allow, sess, key) == sess \cup {key}

\* confirmHandler: if cfg.AllowInsecureLoginAfterConfirm, the account's
\* primary ID is put into the session under SessionKey.
SessionPut(allow, sess, key) == IF allow THEN sess \cup {key} ELSE sess

\* A mutant of SetConfirmed: the token is cleared, the flag is not set.
SetConfirmed_NoFlag(user) == [user EXCEPT !.confirm_token = EmptyString]

\* A mutant of SetConfirmed: the token is left in place.
SetConfirmed_KeepToken(user) == [user EXCEPT !.confirmed = TRUE]

\* confirmHandler: ctx.User[StoreConfirmToken] = ""; ctx.User[StoreConfirmed] = true
SetConfirmed(user) == [user EXCEPT !.confirm_token = EmptyString, !.confirmed = TRUE]

\* A mutant of TokenMissing: the empty form value is looked up like any other.
TokenMissing_Never(token) == FALSE

\* confirmHandler: len(token) == 0
TokenMissing(token) == Len(token) = 0

\* A mutant of NotFoundLocation: the unknown token is sent to the success path.
NotFoundLocation_OK == RegisterOKPath

\* confirmHandler: ErrAndRedirect{Location: "/", ...}
NotFoundLocation == RootPath

\* A mutant of BeforeGetInterrupt: the gate lets every account through.
BeforeGetInterrupt_Open(readable, confirmed) == "InterruptNone"

\* A mutant of BeforeGetInterrupt: the gate holds every account back.
BeforeGetInterrupt_Shut(readable, confirmed) == "InterruptAccountNotConfirmed"

\* beforeGet: the interrupt returned for the confirmed field as read by BoolErr.
BeforeGetInterrupt(readable, confirmed) ==
  IF ~readable THEN "InterruptNone"
  ELSE IF ~confirmed THEN "InterruptAccountNotConfirmed"
  ELSE "InterruptNone"

\* beforeGet: the error returned.
BeforeGetErr(readable) == IF ~readable THEN "AttributeErr" ELSE "nil"

\* A mutant of GoConfirmEmail: the message is dispatched twice.
GoConfirmEmail_Twice(ds, a, to, token) ==
  [ds EXCEPT ![a] = @ \o << [to |-> to, token |-> token], [to |-> to, token |-> token] >>]

\* goConfirmEmail(c, ctx, email, token): one call of confirmEmail, inline or
\* on a goroutine.
GoConfirmEmail(ds, a, to, token) ==
  [ds EXCEPT ![a] = Append(@, [to |-> to, token |-> token])]

\* A mutant of AfterRegisterReturn: a failed delivery fails the registration.
AfterRegisterReturn_MailErr(sync, sendOk) ==
  IF sync /\ ~sendOk THEN "mailErr" ELSE "nil"

\* afterRegister: what it returns once goConfirmEmail was called.
AfterRegisterReturn(sync, sendOk) == "nil"

\* confirmEmail: the Mailer is called, and its failure written to LogWriter.
ConfirmEmailCalls(sendOk) ==
  IF sendOk THEN << "Mailer.Send" >> ELSE << "Mailer.Send", "LogWriter.Write" >>

\* No outstanding token of the account was overwritten.
NoIssue == << >>

\* History of line 146 writing over a token the stored account holds: the
\* token that was stored and the upper-cased token generated, for the last
\* afterRegister call that saved the account.
Overwrite(is, a, old, token) ==
  [is EXCEPT ![a] = IF old = EmptyString THEN NoIssue
                    ELSE << old, ToUpper(token) >>]

\* No call of the generator is being followed.
IdleGen ==
  [pc |-> "idle", n |-> 0, stream |-> << >>, i |-> 0, cache |-> << >>,
   remain |-> 0, b |-> << >>, rest |-> << >>, idx |-> -1, took |-> FALSE,
   out |-> << >>]

\* ----------------------------------------------------------------- Init
Init ==
  /\ cfg \in [AllowInsecureLoginAfterConfirm : BOOLEAN, MailMaker : BOOLEAN]
  /\ store = [a \in Accounts |-> NoUser]
  /\ reg = [a \in Accounts |-> IdleReg]
  /\ conf = [r \in Requests |-> IdleConf]
  /\ dispatches = [a \in Accounts |-> << >>]
  /\ session = {}
  /\ redeemed = {}
  /\ last = NoEvent
  /\ calls = << >>
  /\ touched = {}
  /\ issued = [a \in Accounts |-> NoIssue]
  /\ gen = IdleGen

\* What a step did to the Storer, read off the stores before and after it.
Touched(before, after) == {a \in Accounts : before[a] # after[a]}

\* -------------------------------------------------------------- actions
\* The host's registration: it creates account a in the Storer and fires
\* EventRegister with the new account in the context (or, when the pipeline
\* is misconfigured, with no user loaded).  Accounts are created in order.
hostRegister(a) ==
  /\ store[a] = NoUser
  /\ \A b \in Accounts : b < a => store[b] # NoUser
  /\ \E e \in {EmailOf(a), NoEmail}, loaded \in BOOLEAN :
       /\ store' = [store EXCEPT ![a] = NewUser(a, e)]
       /\ reg' = [reg EXCEPT ![a] =
                    [pc |-> "fired",
                     user |-> IF loaded THEN NewUser(a, e) ELSE NoUser]]
  /\ last' = [NoEvent EXCEPT !.op = "hostRegister", !.acct = a]
  /\ calls' = << >>
  /\ UNCHANGED << cfg, conf, dispatches, session, redeemed, issued, gen >>
  /\ touched' = Touched(store, store')

\* afterRegister, with confirmEmail inline when ctx.MailMaker is set and
\* left to a goroutine (action confirmEmail) otherwise.
afterRegister(a) ==
  /\ reg[a].pc = "fired"
  /\ IF reg[a].user = NoUser
     THEN /\ reg' = [reg EXCEPT ![a] = [pc |-> "done", user |-> NoUser]]
          /\ last' = [NoEvent EXCEPT !.op = "afterRegister", !.acct = a,
                                     !.result = "errUserMissing"]
          /\ calls' = << >>
          /\ UNCHANGED << store, dispatches, issued >>
     ELSE \E stream \in RandStreams, saveOk \in BOOLEAN, sendOk \in BOOLEAN :
            LET token == RandStringBytesMaskImpr(TokenLength, stream)
                user == SetConfirmToken(reg[a].user, token)
                ev == [NoEvent EXCEPT !.op = "afterRegister", !.acct = a]
            IN /\ token # Exhausted
               /\ IF ~saveOk
                  THEN /\ reg' = [reg EXCEPT ![a] = [pc |-> "done", user |-> NoUser]]
                       /\ last' = [ev EXCEPT !.save = "fail", !.result = "storerErr"]
                       /\ calls' = << "SaveUser" >>
                       /\ UNCHANGED << store, dispatches, issued >>
                  ELSE IF user.email = NoEmail
                  THEN /\ store' = SaveUser(store, user)
                       /\ issued' = Overwrite(issued, a, store[a].confirm_token, token)
                       /\ reg' = [reg EXCEPT ![a] = [pc |-> "done", user |-> NoUser]]
                       /\ last' = [ev EXCEPT !.save = "ok", !.result = "AttributeErr"]
                       /\ calls' = << "SaveUser" >>
                       /\ UNCHANGED dispatches
                  ELSE /\ store' = SaveUser(store, user)
                       /\ issued' = Overwrite(issued, a, store[a].confirm_token, token)
                       /\ dispatches' = GoConfirmEmail(dispatches, a, user.email, token)
                       /\ reg' = [reg EXCEPT ![a] =
                                    [pc |-> IF cfg.MailMaker THEN "done" ELSE "mailing",
                                     user |-> NoUser]]
                       /\ last' = [ev EXCEPT
                                     !.save = "ok",
                                     !.mail = IF ~cfg.MailMaker THEN "async"
                                              ELSE IF sendOk THEN "sent" ELSE "failed",
                                     !.result = AfterRegisterReturn(cfg.MailMaker, sendOk)]
                       /\ calls' = IF cfg.MailMaker
                                   THEN << "SaveUser", "confirmEmail" >>
                                          \o ConfirmEmailCalls(sendOk)
                                   ELSE << "SaveUser", "go confirmEmail" >>
  /\ UNCHANGED << cfg, conf, session, redeemed, gen >>
  /\ touched' = Touched(store, store')

\* confirmEmail on its goroutine: the Mailer accepts the message or fails,
\* and a failure is written to ctx.LogWriter.
confirmEmail(a) ==
  /\ reg[a].pc = "mailing"
  /\ \E sendOk \in BOOLEAN :
       /\ last' = [NoEvent EXCEPT !.op = "confirmEmail", !.acct = a,
                                  !.mail = IF sendOk THEN "sent" ELSE "failed"]
       /\ calls' = ConfirmEmailCalls(sendOk)
  /\ reg' = [reg EXCEPT ![a].pc = "done"]
  /\ UNCHANGED << cfg, store, conf, dispatches, session, redeemed, issued, gen >>
  /\ touched' = Touched(store, store')

\* beforeGet on the account the host loaded into the context; BoolErr reads
\* the confirmed field, or fails when the stored value is no boolean.
beforeGet(a) ==
  /\ store[a] # NoUser
  /\ \E readable \in BOOLEAN :
       last' = [NoEvent EXCEPT
                  !.op = "beforeGet", !.acct = a,
                  !.field = IF ~readable THEN "unreadable"
                            ELSE IF store[a].confirmed THEN "true" ELSE "false",
                  !.interrupt = BeforeGetInterrupt(readable, store[a].confirmed),
                  !.result = BeforeGetErr(readable)]
  /\ calls' = << >>
  /\ UNCHANGED << cfg, store, reg, conf, dispatches, session, redeemed, issued, gen >>
  /\ touched' = Touched(store, store')

\* The form values a client may send: nothing, a string that was never a
\* token, a token as it was dispatched, a token as it is stored, or a token
\* as it was stored before afterRegister wrote over it.
FormValues ==
  {EmptyString, << "0", "0", "7", "x", "y", "z" >>}
    \cup {d.token : d \in UNION {{dispatches[a][i] : i \in 1..Len(dispatches[a])} :
                                   a \in Accounts}}
    \cup {store[a].confirm_token :
            a \in {b \in Accounts : store[b].confirm_token # EmptyString}}
    \cup {issued[a][1] : a \in {b \in Accounts : issued[b] # NoIssue}}

\* The accounts that a completed request carrying this form value confirmed.
Prior(token) == {p[2] : p \in {q \in redeemed : q[1] = token}}

\* confirmHandler up to the answer of ConfirmUser: the request ends here on
\* an empty form value, an unknown token or a storer error, and goes on to
\* confirmHandlerSave with the account found.  A new request takes the
\* lowest free slot.
confirmHandler(r) ==
  /\ conf[r].pc = "idle"
  /\ \A q \in Requests : q < r => conf[q].pc # "idle"
  /\ \E token \in FormValues :
       LET ev == [NoEvent EXCEPT !.op = "confirmHandler",
                                 !.empty = (token = EmptyString),
                                 !.prior = Prior(token)]
       IN IF TokenMissing(token)
          THEN /\ last' = [ev EXCEPT !.result = "ClientDataErr"]
               /\ calls' = << >>
               /\ UNCHANGED conf
          ELSE LET found == ConfirmUser(store, ToUpper(token))
               IN \E lookupOk \in BOOLEAN :
                    IF ~lookupOk
                    THEN /\ last' = [ev EXCEPT !.lookup = "err",
                                               !.result = "storerErr"]
                         /\ calls' = << "ConfirmUser" >>
                         /\ UNCHANGED conf
                    ELSE IF found = {}
                    THEN /\ last' = [ev EXCEPT !.lookup = "notfound",
                                               !.result = "ErrAndRedirect",
                                               !.location = NotFoundLocation]
                         /\ calls' = << "ConfirmUser" >>
                         /\ UNCHANGED conf
                    ELSE \E a \in found :
                         /\ conf' = [conf EXCEPT ![r] =
                                       [pc |-> "found", token |-> token,
                                        user |-> store[a], prior |-> Prior(token)]]
                         /\ last' = [ev EXCEPT !.acct = a, !.lookup = "found",
                                               !.result = "pending"]
                         /\ calls' = << "ConfirmUser" >>
  /\ UNCHANGED << cfg, store, reg, dispatches, session, redeemed, issued, gen >>
  /\ touched' = Touched(store, store')

\* confirmHandler from authboss.Unbind(user) on: the account is marked,
\* saved, optionally logged in, and the client redirected.
confirmHandlerSave(r) ==
  /\ conf[r].pc = "found"
  /\ \E saveOk \in BOOLEAN :
       LET user == SetConfirmed(conf[r].user)
           ev == [NoEvent EXCEPT !.op = "confirmHandler", !.acct = user.key,
                                 !.prior = conf[r].prior, !.lookup = "found"]
       IN IF ~saveOk
          THEN /\ last' = SaveFailed(ev)
               /\ calls' = << "SaveUser" >>
               /\ UNCHANGED << store, session, redeemed >>
          ELSE /\ store' = SaveUser(store, user)
               /\ session' = SessionPut(cfg.AllowInsecureLoginAfterConfirm,
                                        session, user.key)
               /\ redeemed' = redeemed \cup {<< conf[r].token, user.key >>}
               /\ last' = [ev EXCEPT !.save = "ok", !.result = "nil",
                                     !.location = RegisterOKPath]
               /\ calls' = IF cfg.AllowInsecureLoginAfterConfirm
                           THEN << "SaveUser", "SessionStorer.Put", "Redirect" >>
                           ELSE << "SaveUser", "Redirect" >>
  /\ conf' = [conf EXCEPT ![r] = IdleConf]
  /\ UNCHANGED << cfg, reg, dispatches, issued, gen >>
  /\ touched' = Touched(store, store')

Next ==
  \/ \E a \in Accounts : hostRegister(a)
  \/ \E a \in Accounts : afterRegister(a)
  \/ \E a \in Accounts : confirmEmail(a)
  \/ \E a \in Accounts : beforeGet(a)
  \/ \E r \in Requests : confirmHandler(r)
  \/ \E r \in Requests : confirmHandlerSave(r)

Spec == Init /\ [][Next]_vars

\* ------------------------------------------------ the generator, stepwise
\* RandStringBytesMaskImpr followed one loop iteration at a time, for the
\* lengths 1..MaxLen and for streams of rand.Int63() values in which every
\* 6-bit value occurs.
MaxLen == 12

\* The value of rand.Int63() whose ten groups count up from 10*k (mod 64).
DrawFrom(k) == [j \in 1..letterIdxMax |-> (letterIdxMax * k + j - 1) % (letterIdxMask + 1)]
GenDraws == RandDraws \cup {DrawFrom(k) : k \in 0..6}
GenStreams == [1..MaxDraws -> GenDraws]

\* The loop's init clause: i, cache, remain := n-1, rand.Int63(), letterIdxMax
\* over b := make([]byte, n).
GenStart_Short(n, stream) ==
  [IdleGen EXCEPT !.pc = "loop", !.n = n, !.stream = stream, !.i = n - 2,
                  !.cache = Head(stream), !.remain = letterIdxMax,
                  !.b = [k \in 1..n |-> ""], !.rest = Tail(stream)]
GenStart(n, stream) ==
  [IdleGen EXCEPT !.pc = "loop", !.n = n, !.stream = stream, !.i = n - 1,
                  !.cache = Head(stream), !.remain = letterIdxMax,
                  !.b = [k \in 1..n |-> ""], !.rest = Tail(stream)]

InitGen ==
  /\ cfg = [AllowInsecureLoginAfterConfirm |-> FALSE, MailMaker |-> FALSE]
  /\ store = [a \in Accounts |-> NoUser]
  /\ reg = [a \in Accounts |-> IdleReg]
  /\ conf = [r \in Requests |-> IdleConf]
  /\ dispatches = [a \in Accounts |-> << >>]
  /\ session = {}
  /\ redeemed = {}
  /\ last = NoEvent
  /\ calls = << >>
  /\ touched = {}
  /\ issued = [a \in Accounts |-> NoIssue]
  /\ \E n \in 1..MaxLen, stream \in GenStreams : gen = GenStart(n, stream)

\* One iteration of the loop: re-draw when the cache is used up, read the
\* low group, keep its letter if it selects one, shift the cache.
genLoop ==
  /\ gen.pc = "loop"
  /\ gen.i >= 0
  /\ ~(gen.remain = 0 /\ gen.rest = << >>)
  /\ LET cache1 == IF gen.remain = 0 THEN Head(gen.rest) ELSE gen.cache
         remain1 == IF gen.remain = 0 THEN letterIdxMax ELSE gen.remain
         rest1 == IF gen.remain = 0 THEN Tail(gen.rest) ELSE gen.rest
         idx == Head(cache1) % (letterIdxMask + 1)
     IN gen' = [gen EXCEPT
                  !.idx = idx,
                  !.took = Accepts(idx),
                  !.b = IF Accepts(idx)
                        THEN [gen.b EXCEPT ![gen.i + 1] = letterBytes[idx + 1]]
                        ELSE gen.b,
                  !.i = IF Accepts(idx) THEN gen.i - 1 ELSE gen.i,
                  !.cache = Tail(cache1),
                  !.remain = remain1 - 1,
                  !.rest = rest1]
  /\ UNCHANGED << cfg, store, reg, conf, dispatches, session, redeemed, last,
                  calls, touched, issued >>

\* The loop condition i >= 0 fails: return string(b).
genReturn ==
  /\ gen.pc = "loop"
  /\ gen.i < 0
  /\ gen' = [gen EXCEPT !.pc = "done", !.out = gen.b]
  /\ UNCHANGED << cfg, store, reg, conf, dispatches, session, redeemed, last,
                  calls, touched, issued >>

NextGen ==
  \/ genLoop
  \/ genReturn

SpecGen == InitGen /\ [][NextGen]_vars

\* ------------------------------------------------------------ re-issue
\* A host that fires EventRegister again for an account it already holds,
\* unconfirmed and with an outstanding token: afterRegister then runs on the
\* stored account and line 146 writes over the token.  The re-issue is
\* followed for the first account alone, with at most MaxReissues further
\* dispatches.
MaxReissues == 1

hostReissue(a) ==
  /\ store[a] # NoUser
  /\ reg[a].pc = "done"
  /\ ~store[a].confirmed
  /\ store[a].confirm_token # EmptyString
  /\ Len(dispatches[a]) <= MaxReissues
  /\ reg' = [reg EXCEPT ![a] = [pc |-> "fired", user |-> store[a]]]
  /\ last' = [NoEvent EXCEPT !.op = "hostReissue", !.acct = a]
  /\ calls' = << >>
  /\ UNCHANGED << cfg, store, conf, dispatches, session, redeemed, issued, gen >>
  /\ touched' = Touched(store, store')

NextReissue ==
  \/ hostRegister(1)
  \/ afterRegister(1)
  \/ hostReissue(1)
  \/ confirmEmail(1)
  \/ beforeGet(1)
  \/ \E r \in Requests : confirmHandler(r)
  \/ \E r \in Requests : confirmHandlerSave(r)

SpecReissue == Init /\ [][NextReissue]_vars

\* --------------------------------------------------------------- claims
\* The last step was a confirmHandler request that carried a form value
\* which an earlier, completed request had already redeemed.
LaterRequest == last.op = "confirmHandler" /\ last.prior # {}

\* C1, as claimed: once a request carrying token T has completed on the
\* success branch, every later request carrying T takes the not-found
\* branch, never succeeds and changes no stored account.  (Stated for the
\* requests that have returned and that the storer did not fail.)
C1_SingleUse ==
  (LaterRequest /\ last.result \notin {"pending", "storerErr"}) =>
    /\ last.lookup = "notfound"
    /\ last.result = "ErrAndRedirect"
    /\ last.location = RootPath
    /\ touched = {}

\* C1, amended: a later request carrying T never succeeds again for an
\* account that T already confirmed.  It ends with the storer's error when
\* ConfirmUser fails, it takes the not-found branch without changing any
\* account when no account stores upper(T), and otherwise it goes on with
\* another account, one that was issued a token with the same upper case.
C1_SingleUsePerAccount ==
  LaterRequest =>
    \/ last.lookup = "err" /\ last.result = "storerErr" /\ touched = {}
    \/ /\ last.lookup = "notfound"
       /\ last.result = "ErrAndRedirect"
       /\ last.location = RootPath
       /\ touched = {}
    \/ /\ last.lookup = "found"
       /\ last.acct \notin last.prior
       /\ touched \subseteq {last.acct}

\* A request carrying an already redeemed token was answered not-found.
C1_Witness == LaterRequest /\ last.lookup = "notfound"

C3_ConfirmedHasNoToken ==
  \A a \in Accounts : store[a].confirmed => store[a].confirm_token = EmptyString

\* One account is confirmed while a second request, which found the same
\* account before it was confirmed, is still to save.
C3_Witness ==
  \E a \in Accounts, r \in Requests :
    /\ store[a].confirmed
    /\ conf[r].pc = "found"
    /\ conf[r].user.key = a

\* C4: when the confirmed field is readable, beforeGet returns
\* InterruptAccountNotConfirmed exactly when it is false and InterruptNone
\* exactly when it is true, with a nil error, and it calls no collaborator
\* and changes no stored account.
C4_AuthGate ==
  (last.op = "beforeGet" /\ last.field # "unreadable") =>
    /\ (last.field = "true") = store[last.acct].confirmed
    /\ (last.interrupt = "InterruptAccountNotConfirmed") = ~store[last.acct].confirmed
    /\ (last.interrupt = "InterruptNone") = store[last.acct].confirmed
    /\ last.result = "nil"
    /\ calls = << >>
    /\ touched = {}

\* beforeGet let a confirmed account through while another account is still
\* unconfirmed.
C4_Witness ==
  /\ last.op = "beforeGet"
  /\ last.interrupt = "InterruptNone"
  /\ last.field = "true"
  /\ \E b \in Accounts : store[b] # NoUser /\ ~store[b].confirmed

\* C5: when afterRegister returns nil, the account it persisted has a
\* non-empty confirm token and confirmed = false.
C5_Registered ==
  (last.op = "afterRegister" /\ last.result = "nil") =>
    /\ touched = {last.acct}
    /\ store[last.acct].confirm_token # EmptyString
    /\ store[last.acct].confirmed = FALSE

\* afterRegister has just returned nil.
C5_Witness == last.op = "afterRegister" /\ last.result = "nil"

\* C6, as claimed: an afterRegister call that returns nil makes exactly one
\* dispatch, to the account's email and carrying the token just stored; a
\* call that returns an error makes none.
C6_OneDispatch ==
  last.op = "afterRegister" =>
    IF last.result = "nil"
    THEN /\ Len(dispatches[last.acct]) = 1
         /\ dispatches[last.acct][1].to = store[last.acct].email
         /\ dispatches[last.acct][1].token = store[last.acct].confirm_token
    ELSE dispatches[last.acct] = << >>

\* C6, amended: the one dispatch carries the generated token, of which the
\* value just stored is the upper-cased form.
C6_OneDispatchOfGenerated ==
  /\ \A a \in Accounts : Len(dispatches[a]) <= 1
  /\ last.op = "afterRegister" =>
       IF last.result = "nil"
       THEN /\ Len(dispatches[last.acct]) = 1
            /\ dispatches[last.acct][1].to = store[last.acct].email
            /\ dispatches[last.acct][1].to # NoEmail
            /\ ToUpper(dispatches[last.acct][1].token) = store[last.acct].confirm_token
            /\ Len(dispatches[last.acct][1].token) = TokenLength
       ELSE dispatches[last.acct] = << >>

\* afterRegister has just dispatched a mixed-case token.
C6_Witness ==
  /\ last.op = "afterRegister"
  /\ last.result = "nil"
  /\ Len(dispatches[last.acct]) = 1
  /\ dispatches[last.acct][1].token # store[last.acct].confirm_token

\* C7: a request with an empty token parameter returns ClientDataErr and
\* makes no lookup, no storage write, no session write and no redirect.
C7_EmptyToken ==
  (last.op = "confirmHandler" /\ last.empty) =>
    /\ last.result = "ClientDataErr"
    /\ last.lookup = "none"
    /\ last.location = ""
    /\ calls = << >>
    /\ touched = {}

\* An empty token was rejected while an account with an empty confirm token
\* is stored.
C7_Witness ==
  /\ last.op = "confirmHandler"
  /\ last.empty
  /\ \E a \in Accounts : store[a] # NoUser /\ store[a].confirm_token = EmptyString

\* C8: when ConfirmUser reports not-found the request ends with a redirect
\* to "/" and a token-not-found error; it called nothing but ConfirmUser,
\* changed no account and is not left in flight.
C8_UnknownToken ==
  (last.op = "confirmHandler" /\ last.lookup = "notfound") =>
    /\ last.result = "ErrAndRedirect"
    /\ last.location = RootPath
    /\ calls = << "ConfirmUser" >>
    /\ touched = {}
    /\ last.acct = 0

\* An unknown token was answered while some account holds a token.
C8_Witness ==
  /\ last.op = "confirmHandler"
  /\ last.lookup = "notfound"
  /\ \E a \in Accounts : store[a].confirm_token # EmptyString

\* C9: when the user is present, SaveUser succeeds and the email is
\* readable, afterRegister returns nil whether the delivery succeeds or
\* fails, and the account keeps its redeemable token; a delivery that fails
\* on the goroutine is logged and changes no account.
C9_DeliveryFailure ==
  /\ (last.op = "afterRegister" /\ last.save = "ok"
        /\ store[last.acct].email # NoEmail) =>
       /\ last.result = "nil"
       /\ store[last.acct].confirm_token # EmptyString
       /\ last.acct \in ConfirmUser(store, store[last.acct].confirm_token)
  /\ last.op = "confirmEmail" => touched = {}
  /\ (last.op \in {"afterRegister", "confirmEmail"} /\ last.mail = "failed") =>
       calls[Len(calls)] = "LogWriter.Write"

\* afterRegister returned nil although the inline delivery failed.
C9_Witness ==
  /\ last.op = "afterRegister"
  /\ last.mail = "failed"
  /\ last.result = "nil"

\* C10: while the token dispatched for an account is outstanding, a lookup
\* with that token in any letter case finds the account.
C10_CaseInsensitive ==
  \A a \in Accounts :
    (dispatches[a] # << >> /\ store[a].confirm_token # EmptyString) =>
      \A v \in CaseVariants(dispatches[a][1].token) :
        a \in ConfirmUser(store, ToUpper(v))

\* A request carrying the token in another case than dispatched found the
\* account.
C10_Witness ==
  \E r \in Requests :
    /\ conf[r].pc = "found"
    /\ dispatches[conf[r].user.key] # << >>
    /\ conf[r].token # dispatches[conf[r].user.key][1].token
    /\ conf[r].token \in CaseVariants(dispatches[conf[r].user.key][1].token)

\* The characters of [a-zA-Z0-9].
AlphaNum ==
  {"a","b","c","d","e","f","g","h","i","j","k","l","m",
   "n","o","p","q","r","s","t","u","v","w","x","y","z",
   "A","B","C","D","E","F","G","H","I","J","K","L","M",
   "N","O","P","Q","R","S","T","U","V","W","X","Y","Z",
   "0","1","2","3","4","5","6","7","8","9"}

\* C11: whatever rand.Int63() returned, a call RandStringBytesMaskImpr(n)
\* with n >= 1 that returns, returns a string of exactly n characters, each
\* of them in [a-zA-Z0-9].
C11_LengthAndAlphabet ==
  gen.pc = "done" =>
    /\ gen.n >= 1
    /\ Len(gen.out) = gen.n
    /\ \A k \in 1..Len(gen.out) : gen.out[k] \in AlphaNum

\* A call returned a string longer than one rand.Int63() value can fill,
\* after values were rejected.
C11_Witness ==
  /\ gen.pc = "done"
  /\ gen.n > letterIdxMax
  /\ gen.stream[1] = DrawSparse
  /\ Len(gen.out) = gen.n

\* The alphabet the specification names: letterBytes followed by the digits.
Alphabet62 == letterBytes \o << "0","1","2","3","4","5","6","7","8","9" >>

\* C12, as claimed: a 6-bit value is accepted exactly if it is one of
\* 0..61, an accepted value v puts the character at place v of the 62
\* characters of [a-zA-Z0-9] into the token, and 62 and 63 are re-drawn.
C12_Alphabet62 ==
  gen.idx >= 0 =>
    /\ gen.took <=> gen.idx <= 61
    /\ gen.took => gen.b[gen.i + 2] = Alphabet62[gen.idx + 1]

\* C12, amended: the alphabet is the 52 letters [a-zA-Z], without digits;
\* a 6-bit value is accepted exactly if it is one of 0..51, an accepted
\* value v puts the letter at place v into the token, distinct values put
\* distinct letters, and the values 52..63 are rejected and re-drawn.
C12_Alphabet52 ==
  /\ Len(letterBytes) = 52
  /\ \A v, w \in 1..Len(letterBytes) : letterBytes[v] = letterBytes[w] => v = w
  /\ \A v \in 1..Len(letterBytes) :
       letterBytes[v] \in AlphaNum \ {"0","1","2","3","4","5","6","7","8","9"}
  /\ gen.idx >= 0 =>
       /\ gen.took <=> gen.idx <= 51
       /\ gen.took => gen.b[gen.i + 2] = letterBytes[gen.idx + 1]

\* The loop read the value 61, which would select the digit 9 of a
\* 62-character alphabet, and rejected it.
C12_Witness ==
  /\ gen.idx = 61
  /\ ~gen.took
  /\ gen.pc = "loop"

\* C13: of the confirmHandler requests that carry the same issued token, at
\* most one completes on the success branch.  Every request that completes
\* there is then the one that consumed the token: its SaveUser turned the
\* stored account from unconfirmed into confirmed, which a second success
\* for the same account cannot do.
C13_AtMostOneSuccess ==
  (last.op = "confirmHandler" /\ last.result = "nil") => last.acct \in touched

\* The token afterRegister dispatched to account a's email equals, up to
\* letter case, the form value t.
DispatchedTo(a, t) ==
  /\ dispatches[a] # << >>
  /\ ToUpper(dispatches[a][1].token) = ToUpper(t)

\* C14, as claimed: an account is confirmed only by a request carrying, up
\* to letter case, a token that afterRegister dispatched to that account's
\* email, and a token dispatched to one account never confirms another.
C14_ProvesControl ==
  /\ \A a \in Accounts :
       store[a].confirmed => \E p \in redeemed : p[2] = a
  /\ \A p \in redeemed :
       /\ DispatchedTo(p[2], p[1])
       /\ \A b \in Accounts \ {p[2]} : ~DispatchedTo(b, p[1])

\* C14, amended: an account is confirmed only by a confirmHandler request
\* carrying a non-empty token whose upper-cased value is the confirm token
\* stored for that account; if a token was dispatched to the account's
\* email, the request's token equals it up to letter case.  (An account
\* whose email could not be read holds a token dispatched to nobody, and a
\* token dispatched to one account confirms another one that stores the
\* same upper-cased value.)
C14_ProvesStoredToken ==
  /\ \A a \in Accounts :
       store[a].confirmed => \E p \in redeemed : p[2] = a
  /\ \A p \in redeemed :
       /\ p[1] # EmptyString
       /\ dispatches[p[2]] # << >> => DispatchedTo(p[2], p[1])
  /\ \A r \in Requests :
       conf[r].pc = "found" =>
         /\ conf[r].token # EmptyString
         /\ conf[r].user.confirm_token = ToUpper(conf[r].token)
         /\ conf[r].user.confirm_token # EmptyString

\* A request carrying the token dispatched to one account confirmed another
\* account, to whose email no token was ever dispatched.
C14_Witness ==
  \E p \in redeemed :
    /\ store[p[2]].confirmed
    /\ dispatches[p[2]] = << >>
    /\ \E b \in Accounts \ {p[2]} :
         /\ dispatches[b] # << >>
         /\ dispatches[b][1].token = p[1]

\* The accounts that are registered while afterRegister has not yet returned
\* from SaveUser for them: their token write is not persisted.
NotYetPersisted == {a \in Accounts : store[a] # NoUser /\ reg[a].pc = "fired"}

\* C15: as long as afterRegister's token write for an account is not
\* persisted, no confirmHandler request finds that account, proceeds with
\* it or has succeeded for it, whatever token it carries: the account stays
\* unconfirmed and a lookup for it ends not-found.
C15_NoSuccessBeforePersist ==
  \A a \in NotYetPersisted :
    /\ ~store[a].confirmed
    /\ \A p \in redeemed : p[2] # a
    /\ \A r \in Requests : conf[r].pc = "found" => conf[r].user.key # a
    /\ last.op = "confirmHandler" => last.acct # a
    /\ \A t \in FormValues \ {EmptyString} : a \notin ConfirmUser(store, ToUpper(t))

\* A request carrying a non-empty token ran while an account's token write
\* was not persisted, and ended on the not-found branch.
C15_Witness ==
  /\ NotYetPersisted # {}
  /\ last.op = "confirmHandler"
  /\ ~last.empty
  /\ last.lookup = "notfound"

\* C16, as claimed: once afterRegister has issued a new token for an account
\* that held an outstanding token, a request carrying the previous token
\* does not find, and so does not confirm, that account.
C16_PreviousTokenDead ==
  \A a \in Accounts :
    issued[a] # NoIssue => a \notin ConfirmUser(store, ToUpper(issued[a][1]))

\* C16, amended: the stored account holds one confirm token, the one
\* afterRegister generated last; the previous token no longer finds the
\* account unless the generator returned a token with the same upper-cased
\* value again.
C16_PreviousTokenDeadUnlessSame ==
  \A a \in Accounts :
    issued[a] # NoIssue =>
      /\ store[a].confirm_token \in {issued[a][2], EmptyString}
      /\ issued[a][1] # issued[a][2] =>
           a \notin ConfirmUser(store, ToUpper(issued[a][1]))

\* A request carrying the token that was overwritten by a different one ran
\* after the overwrite and ended on the not-found branch, while the account
\* still awaits confirmation with the new token.
C16_Witness ==
  \E a \in Accounts :
    /\ issued[a] # NoIssue
    /\ issued[a][1] # issued[a][2]
    /\ store[a].confirm_token = issued[a][2]
    /\ last.op = "confirmHandler"
    /\ ~last.empty
    /\ last.lookup = "notfound"

\* The last step called SessionStorer.Put.
SessionWritten == \E k \in 1..Len(calls) : calls[k] = "SessionStorer.Put"

\* C17: the session key is written only by a confirmHandler request, only
\* when AllowInsecureLoginAfterConfirm is set, only after SaveUser stored
\* the account as confirmed with an empty token, and with the primary ID of
\* that account; with the policy off the session is never written, and
\* every key in the session is that of an account stored as confirmed.
C17_SessionPolicy ==
  /\ ~cfg.AllowInsecureLoginAfterConfirm => session = {} /\ ~SessionWritten
  /\ \A k \in session :
       /\ k \in {p[2] : p \in redeemed}
       /\ store[k].confirmed
       /\ store[k].confirm_token = EmptyString
  /\ SessionWritten =>
       /\ last.op = "confirmHandler"
       /\ last.save = "ok"
       /\ calls = << "SaveUser", "SessionStorer.Put", "Redirect" >>
       /\ last.acct \in session
       /\ store[last.acct].confirmed
       /\ store[last.acct].confirm_token = EmptyString

\* With the policy on, a request confirmed an account and put its primary
\* ID into the session.
C17_Witness ==
  /\ cfg.AllowInsecureLoginAfterConfirm
  /\ SessionWritten
  /\ last.acct \in session
  /\ last.acct \in touched

C19_PersistBeforeEmail ==
  /\ (last.op = "afterRegister" /\ last.result = "AttributeErr") =>
       /\ store[last.acct].email = NoEmail
       /\ last.save = "ok"
       /\ calls = << "SaveUser" >>
       /\ touched = {last.acct}
       /\ store[last.acct].confirm_token # EmptyString
       /\ store[last.acct].confirm_token \in
            {ToUpper(RandStringBytesMaskImpr(TokenLength, s)) : s \in RandStreams}
       /\ dispatches[last.acct] = << >>
  /\ (last.op = "afterRegister" /\ last.result = "errUserMissing") =>
       /\ last.save = "none"
       /\ calls = << >>
       /\ touched = {}
       /\ store[last.acct].confirm_token = EmptyString
       /\ dispatches[last.acct] = << >>

\* afterRegister failed on the missing email and the account is stored with
\* a token that a request can redeem.
C19_Witness ==
  /\ last.op = "afterRegister"
  /\ last.result = "AttributeErr"
  /\ last.acct \in ConfirmUser(store, store[last.acct].confirm_token)
  /\ store[last.acct].confirm_token # EmptyString

\* C20: no step of afterRegister, beforeGet, confirmHandler or confirmEmail
\* turns a stored account's confirmed field from true to false, and a
\* beforeGet call on an account stored as confirmed returns InterruptNone.
C20_Monotonic ==
  [][/\ \A a \in Accounts : store[a].confirmed => store'[a].confirmed
     /\ (last'.op = "beforeGet" /\ store[last'.acct].confirmed) =>
          last'.interrupt = "InterruptNone"]_vars

\* A second request saved an account that was already stored as confirmed,
\* and the account is still confirmed.
C20_Witness ==
  /\ last.op = "confirmHandler"
  /\ last.save = "ok"
  /\ touched = {}
  /\ store[last.acct].confirmed

====
